---- MODULE Spec2Model ----
(***************************************************************************)
(* A model of helaili/collaborator: the reconciliation engine              *)
(* CollaboratorManager.syncCollaborators (src/src/collaboratorManager.ts)  *)
(* run against a remote repository holding collaborators and pending       *)
(* invitations.  Every await on a remote call is one action; the code that *)
(* runs between two awaits (loop iterations that issue no call, the        *)
(* lookups in the snapshot) belongs to the action of the call it leads to. *)
(*                                                                         *)
(* Three specifications share the variables:                               *)
(*   Spec       syncCollaborators called with a desired list (the engine)  *)
(*   SpecParse  parseCollaboratorsFile called on a collaborator file       *)
(*   SpecFair   Spec with every remote call returning (weak fairness)      *)
(*   SpecRun    main.run: resolve the file, parse it, synchronize, report  *)
(*              (the run of today, and the legacy inline run)              *)
(*   SpecConcurrent  the engine while somebody else changes the repository *)
(*   SpecPaged  the engine and the legacy inline run of main.ts against    *)
(*              repositories whose listings span more than one page        *)
(***************************************************************************)
EXTENDS Integers, Sequences, FiniteSets, TLC

VARIABLES
  desiredCollaborators,  \* the argument of syncCollaborators
  collaborators,         \* remote: the repository's collaborators
  invitations,           \* remote: the repository's pending invitations
  nextId,                \* remote: the id the next invitation gets
  currentCollaborators,  \* the snapshot getCurrentState took
  pendingInvites,        \* the snapshot getCurrentState took
  desiredUsernames,      \* the result of getDesiredUsernames
  pc,                    \* where the run is
  phase,                 \* the pass the run is in
  idx,                   \* the iteration of that pass
  step,                  \* calls the iteration has completed
  log,                   \* the remote calls of this run, in order
  error,                 \* the message syncCollaborators rejected with
  run,                   \* 1: the first run, 2: the run right after it
  startCollaborators,    \* remote collaborators when this run started
  startInvitations,      \* remote invitations when this run started
  document,              \* the collaborator file: what reading it gives
  mainPc,                \* where main.run (or the caller of the parser) is
  failed,                \* the message given to core.setFailed
  successLogged,         \* whether run has logged its success message
  variant                \* "manager": syncCollaborators; "legacy": the inline
                         \* run of main.ts

vars == <<desiredCollaborators, collaborators, invitations, nextId,
          currentCollaborators, pendingInvites, desiredUsernames, pc, phase,
          idx, step, log, error, run, startCollaborators, startInvitations,
          document, mainPc, failed, successLogged, variant>>

----------------------------------------------------------------------------
(* Bounds and the alphabet of the model *)

MaxDesired == 2

\* The permission levels of the data model.
Permissions == {"pull", "triage", "push", "maintain", "admin"}

\* The levels the model's inputs are drawn from: the engine only compares
\* levels for equality, so two levels give every outcome of a comparison.
ModelRoles == {"push", "admin"}

\* Logins as written: principal a in two spellings, principal b in one.
Logins == {"a", "A", "b"}

\* An invitation without invitee (invitee: null).
NoInvitee == "<null>"

\* JavaScript values that are not strings: undefined (an absent property),
\* null, and a number (42 stands for every number).
JsUndefined == "<undefined>"
JsNull == "<null>"
JsNumber == "<42>"

\* typeof v === 'string'
IsString(v) == v \notin {JsUndefined, JsNull, JsNumber}

\* !v, for the values of the model: undefined, null and the empty string.
Falsy(v) == v \in {JsUndefined, JsNull, ""}

\* JSON.stringify of a value: a string is quoted, null and numbers are not.
JsonValue(v) ==
  CASE v = JsNull -> "null"
    [] v = JsNumber -> "42"
    [] OTHER -> "\"" \o v \o "\""

\* JSON.stringify of a collaborator entry: its properties in the order
\* username, role; a property whose value is undefined is left out.
JSONstringify(c) ==
  LET username == IF c.username = JsUndefined THEN <<>>
                  ELSE <<"\"username\":" \o JsonValue(c.username)>>
      role == IF c.role = JsUndefined THEN <<>>
              ELSE <<"\"role\":" \o JsonValue(c.role)>>
      props == username \o role
  IN "{" \o (IF Len(props) = 0 THEN ""
             ELSE IF Len(props) = 1 THEN props[1]
             ELSE props[1] \o "," \o props[2]) \o "}"

\* What a failing remote call rejects with.
ErrorMessages == {"API Error"}
NotFound == "Not Found"
NoError == "<none>"

\* String.prototype.toLowerCase over the alphabet of the model.
toLowerCase(s) ==
  CASE s = "A" -> "a"
    [] s = "B" -> "b"
    [] s = "Admin" -> "admin"
    [] OTHER -> s

Range(s) == {s[i] : i \in 1..Len(s)}

\* Array.prototype.find, given the outcome of the test on each element: the
\* index of the first element that passes, 0 if none does.
Find(passes) ==
  IF \E i \in 1..Len(passes) : passes[i]
  THEN CHOOSE i \in 1..Len(passes) :
         passes[i] /\ \A j \in 1..(i - 1) : ~passes[j]
  ELSE 0

----------------------------------------------------------------------------
(* The remote calls the engine issues *)

Call(op, user, perm, id) == [op |-> op, user |-> user, perm |-> perm, id |-> id]

CallAddCollaborator(username, role) == Call("addCollaborator", username, role, 0)
CallDeleteInvitation(id) == Call("deleteInvitation", "", "", id)
CallRemoveCollaborator(login) == Call("removeCollaborator", login, "", 0)

----------------------------------------------------------------------------
(* The engine, as functions of the snapshot *)

MissingUsername == "Collaborator entry is missing username: "
UsernameNotString == "Collaborator username must be a string, got: "

\* Mutant of UsernameError: only the test for a missing username is made.
UsernameError_MissingOnly(c) ==
  IF Falsy(c.username) THEN MissingUsername \o JSONstringify(c)
  ELSE NoError

\* getDesiredUsernames, the callback of map: what it throws for one entry,
\* NoError if it throws nothing.
UsernameError(c) ==
  IF Falsy(c.username) THEN MissingUsername \o JSONstringify(c)
  ELSE IF ~IsString(c.username) THEN UsernameNotString \o JSONstringify(c)
  ELSE NoError

\* getDesiredUsernames: what it throws, which is what the callback throws for
\* the first entry it rejects; NoError if every entry passes.
getDesiredUsernamesThrows(cs) ==
  LET bad == Find([i \in 1..Len(cs) |-> UsernameError(cs[i]) # NoError])
  IN IF bad = 0 THEN NoError ELSE UsernameError(cs[bad])

\* getDesiredUsernames: the lower-cased usernames, in the order of the list.
getDesiredUsernames(cs) == [i \in 1..Len(cs) |-> toLowerCase(cs[i].username)]

\* Mutant of FindExistingCollaborator: the login is compared as written.
FindExistingCollaborator_CaseSensitive(cur, username) ==
  Find([k \in 1..Len(cur) |-> cur[k].login = username])

\* currentCollaborators.find((c) => c.login.toLowerCase() === username)
FindExistingCollaborator(cur, username) ==
  Find([k \in 1..Len(cur) |-> toLowerCase(cur[k].login) = username])

\* pendingInvites.find((invite) => invite.invitee &&
\*                                 invite.invitee.login.toLowerCase() === username)
FindPendingInvite(pend, username) ==
  Find([k \in 1..Len(pend) |->
          /\ pend[k].invitee # NoInvitee
          /\ toLowerCase(pend[k].invitee) = username])

\* Mutant of handleExistingCollaborator: the role is set whether or not it
\* differs.
handleExistingCollaborator_AlwaysUpdate(existingCollaborator, collaborator, role) ==
  <<CallAddCollaborator(collaborator.username, role)>>

\* handleExistingCollaborator: the calls it awaits, in order.
handleExistingCollaborator(existingCollaborator, collaborator, role) ==
  IF existingCollaborator.role_name # role
  THEN <<CallAddCollaborator(collaborator.username, role)>>
  ELSE <<>>

\* Mutant of handlePendingInvite: the new invitation is sent before the old
\* one is deleted.
handlePendingInvite_AddFirst(pendingInvite, collaborator, role) ==
  IF pendingInvite.permissions # role
  THEN <<CallAddCollaborator(collaborator.username, role),
         CallDeleteInvitation(pendingInvite.id)>>
  ELSE <<>>

\* handlePendingInvite: the calls it awaits, in order.
handlePendingInvite(pendingInvite, collaborator, role) ==
  IF pendingInvite.permissions # role
  THEN <<CallDeleteInvitation(pendingInvite.id),
         CallAddCollaborator(collaborator.username, role)>>
  ELSE <<>>

\* Mutant of AddOrUpdateCalls: a new collaborator is added under the
\* lower-cased username.
AddOrUpdateCalls_LowerCased(collaborator, cur, pend) ==
  LET username == toLowerCase(collaborator.username)
      role == collaborator.role
      e == FindExistingCollaborator(cur, username)
      p == FindPendingInvite(pend, username)
  IN IF e # 0 THEN handleExistingCollaborator(cur[e], collaborator, role)
     ELSE IF p # 0 THEN handlePendingInvite(pend[p], collaborator, role)
     ELSE <<CallAddCollaborator(username, role)>>

\* Mutant of AddOrUpdateCalls: the pending invitation is looked up before the
\* collaborator.
AddOrUpdateCalls_InviteFirst(collaborator, cur, pend) ==
  LET username == toLowerCase(collaborator.username)
      role == collaborator.role
      e == FindExistingCollaborator(cur, username)
      p == FindPendingInvite(pend, username)
  IN IF p # 0 THEN handlePendingInvite(pend[p], collaborator, role)
     ELSE IF e # 0 THEN handleExistingCollaborator(cur[e], collaborator, role)
     ELSE <<CallAddCollaborator(collaborator.username, role)>>

\* One iteration of the loop of processCollaboratorsToAddOrUpdate.
AddOrUpdateCalls(collaborator, cur, pend) ==
  LET username == toLowerCase(collaborator.username)
      role == collaborator.role
      e == FindExistingCollaborator(cur, username)
      p == FindPendingInvite(pend, username)
  IN IF e # 0 THEN handleExistingCollaborator(cur[e], collaborator, role)
     ELSE IF p # 0 THEN handlePendingInvite(pend[p], collaborator, role)
     ELSE <<CallAddCollaborator(collaborator.username, role)>>

\* Mutant of RemoveCollaboratorCalls: the login is looked up as written.
RemoveCollaboratorCalls_CaseSensitive(collaborator, usernames) ==
  IF collaborator.login \in Range(usernames)
  THEN <<>>
  ELSE <<CallRemoveCollaborator(collaborator.login)>>

\* Mutant of RemoveCollaboratorCalls: nobody is removed.
RemoveCollaboratorCalls_Nobody(collaborator, usernames) == <<>>

\* One iteration of the loop of processCollaboratorsToRemove.
RemoveCollaboratorCalls(collaborator, usernames) ==
  IF toLowerCase(collaborator.login) \in Range(usernames)
  THEN <<>>
  ELSE <<CallRemoveCollaborator(collaborator.login)>>

\* Mutant of RemoveInviteCalls: an invitation without invitee counts as not
\* desired.
RemoveInviteCalls_NoSkip(invite, usernames) ==
  IF invite.invitee # NoInvitee /\ toLowerCase(invite.invitee) \in Range(usernames)
  THEN <<>>
  ELSE <<CallDeleteInvitation(invite.id)>>

\* Mutant of RemoveInviteCalls: the invitation of a desired invitee is
\* deleted too.
RemoveInviteCalls_Desired(invite, usernames) ==
  IF invite.invitee = NoInvitee THEN <<>>
  ELSE <<CallDeleteInvitation(invite.id)>>

\* One iteration of the loop of processInvitesToRemove.
RemoveInviteCalls(invite, usernames) ==
  IF invite.invitee = NoInvitee THEN <<>>
  ELSE IF toLowerCase(invite.invitee) \in Range(usernames) THEN <<>>
  ELSE <<CallDeleteInvitation(invite.id)>>

\* Mutant of NextPass: processInvitesToRemove is called before
\* processCollaboratorsToRemove.
NextPass_InvitesFirst(ph) ==
  CASE ph = "addOrUpdate" -> "removeInvites"
    [] ph = "removeInvites" -> "removeCollaborators"
    [] OTHER -> "end"

\* The three passes of syncCollaborators, in the order it awaits them.
NextPass(ph) ==
  CASE ph = "addOrUpdate" -> "removeCollaborators"
    [] ph = "removeCollaborators" -> "removeInvites"
    [] OTHER -> "end"

\* The entry as the legacy run reads it: its Collaborator type calls the
\* level permission.
LegacyCollaborator(c) == [username |-> c.username, permission |-> c.role]

\* The permission flags the remote reports for a collaborator whose role name
\* is one of the five levels.
PermissionFlags(role_name) ==
  CASE role_name = "admin" -> {"admin", "maintain", "push", "triage", "pull"}
    [] role_name = "maintain" -> {"maintain", "push", "triage", "pull"}
    [] role_name = "push" -> {"push", "triage", "pull"}
    [] role_name = "triage" -> {"triage", "pull"}
    [] OTHER -> {"pull"}

\* The legacy run derives the current role from the permission flags.
currentRole(currentPermission) ==
  IF "admin" \in currentPermission THEN "admin"
  ELSE IF "maintain" \in currentPermission THEN "maintain"
  ELSE IF "push" \in currentPermission THEN "push"
  ELSE IF "triage" \in currentPermission THEN "triage"
  ELSE "pull"

\* One iteration of the first loop of the legacy run.
LegacyAddOrUpdateCalls(collaborator, cur, pend) ==
  LET username == toLowerCase(collaborator.username)
      permission == collaborator.permission
      e == FindExistingCollaborator(cur, username)
      p == FindPendingInvite(pend, username)
  IN IF e # 0
     THEN IF currentRole(PermissionFlags(cur[e].role_name)) # permission
          THEN <<CallAddCollaborator(collaborator.username, permission)>>
          ELSE <<>>
     ELSE IF p # 0
     THEN IF pend[p].permissions # permission
          THEN <<CallDeleteInvitation(pend[p].id),
                 CallAddCollaborator(collaborator.username, permission)>>
          ELSE <<>>
     ELSE <<CallAddCollaborator(collaborator.username, permission)>>

PassLen(ph, cur, pend) ==
  CASE ph = "addOrUpdate" -> Len(desiredCollaborators)
    [] ph = "removeCollaborators" -> Len(cur)
    [] ph = "removeInvites" -> Len(pend)
    [] OTHER -> 0

CallsAt(ph, i, cur, pend, usernames) ==
  CASE ph = "addOrUpdate" ->
         IF variant = "legacy"
         THEN LegacyAddOrUpdateCalls(
                LegacyCollaborator(desiredCollaborators[i]), cur, pend)
         ELSE AddOrUpdateCalls(desiredCollaborators[i], cur, pend)
    [] ph = "removeCollaborators" -> RemoveCollaboratorCalls(cur[i], usernames)
    [] ph = "removeInvites" -> RemoveInviteCalls(pend[i], usernames)
    [] OTHER -> <<>>

Position(ph, i, k) == [phase |-> ph, idx |-> i, step |-> k]

\* From iteration i of pass ph with k calls completed: the place of the next
\* call the run awaits, skipping the iterations that issue none; phase "end"
\* when no call is left.
RECURSIVE NextAwait(_, _, _, _, _, _)
NextAwait(ph, i, k, cur, pend, usernames) ==
  IF ph = "end" THEN Position("end", 0, 0)
  ELSE IF i > PassLen(ph, cur, pend)
       THEN NextAwait(NextPass(ph), 1, 0, cur, pend, usernames)
  ELSE IF k < Len(CallsAt(ph, i, cur, pend, usernames))
       THEN Position(ph, i, k)
  ELSE NextAwait(ph, i + 1, 0, cur, pend, usernames)

\* Mutant of AwaitedCall: the call is decided on what the remote holds now,
\* not on the snapshot.
AwaitedCall_Live ==
  LET live == CallsAt(phase, idx, collaborators, invitations, desiredUsernames)
      planned == CallsAt(phase, idx, currentCollaborators, pendingInvites,
                         desiredUsernames)
  IN IF phase = "addOrUpdate" /\ step + 1 <= Len(live)
     THEN live[step + 1]
     ELSE planned[step + 1]

\* The call the run is waiting on.
AwaitedCall ==
  CallsAt(phase, idx, currentCollaborators, pendingInvites,
          desiredUsernames)[step + 1]

----------------------------------------------------------------------------
(* The remote repository.  It is the system the engine talks to: its calls  *)
(* are modelled by their documented effect.                                 *)

Remote(c, i, n) == [collaborators |-> c, invitations |-> i, nextId |-> n]

\* The page size getCurrentState asks for when it lists the collaborators,
\* and the page size the remote uses when the request names none.
per_page == 100
DefaultPerPage == 30

\* Page n of a listing, and whether the remote announces a page after it.
Page(list, size, n) ==
  SubSeq(list, (n - 1) * size + 1,
         IF n * size < Len(list) THEN n * size ELSE Len(list))

HasNextPage(list, size, n) == n * size < Len(list)

\* repos.addCollaborator: an existing collaborator gets the permission; a
\* principal that already holds an invitation keeps it, with the offered
\* permission either left as it is or replaced (the remote decides); anyone
\* else gets a new invitation.
RemoteAddCollaborator(username, role) ==
  LET u == toLowerCase(username)
      e == Find([k \in 1..Len(collaborators) |->
                   toLowerCase(collaborators[k].login) = u])
      p == Find([k \in 1..Len(invitations) |->
                   /\ invitations[k].invitee # NoInvitee
                   /\ toLowerCase(invitations[k].invitee) = u])
  IN IF e # 0
     THEN {Remote([collaborators EXCEPT ![e].role_name = role], invitations,
                  nextId)}
     ELSE IF p # 0
     THEN {Remote(collaborators, invitations, nextId),
           Remote(collaborators, [invitations EXCEPT ![p].permissions = role],
                  nextId)}
     ELSE {Remote(collaborators,
                  Append(invitations, [id |-> nextId, invitee |-> username,
                                       permissions |-> role]),
                  nextId + 1)}

\* repos.removeCollaborator
RemoteRemoveCollaborator(login) ==
  LET Others(c) == toLowerCase(c.login) # toLowerCase(login)
  IN Remote(SelectSeq(collaborators, Others), invitations, nextId)

\* repos.deleteInvitation: an id the remote does not hold is not found.
RemoteHasInvitation(id) == \E i \in 1..Len(invitations) : invitations[i].id = id

RemoteDeleteInvitation(id) ==
  LET Others(v) == v.id # id
  IN Remote(collaborators, SelectSeq(invitations, Others), nextId)

----------------------------------------------------------------------------
(* Initial states: a desired list and a remote repository *)

SeqsUpTo(S, n) == UNION {[1..k -> S] : k \in 0..n}

Principals == {toLowerCase(l) : l \in Logins}

Spellings(p) == {l \in Logins : toLowerCase(l) = p}

\* Entries whose username is missing (undefined, empty) or not a string.
InvalidEntries == [username : {JsUndefined, "", JsNumber}, role : {"push"}]

DesiredEntries == [username : Logins, role : ModelRoles] \cup InvalidEntries

\* syncCollaborators is called directly: no file is read.
NoDocument == [kind |-> "none"]

\* At most one collaborator per principal (logins are unique whatever the case).
CollaboratorChoices(p) ==
  {<<>>} \cup {<<[login |-> l, role_name |-> r]>> : l \in Spellings(p), r \in ModelRoles}

\* At most one pending invitation per invitee.
InviteChoices(p) ==
  {<<>>} \cup {<<[invitee |-> l, permissions |-> r]>> : l \in Spellings(p), r \in ModelRoles}

NullInviteChoices == {<<>>, <<[invitee |-> NoInvitee, permissions |-> "push"]>>}

WithIds(s) ==
  [i \in 1..Len(s) |->
     [id |-> i, invitee |-> s[i].invitee, permissions |-> s[i].permissions]]

InitCollaborators ==
  {x \o y : x \in CollaboratorChoices("a"), y \in CollaboratorChoices("b")}

InitInvitations ==
  {WithIds(n \o x \o y) :
     n \in NullInviteChoices, x \in InviteChoices("a"), y \in InviteChoices("b")}

Init ==
  /\ desiredCollaborators \in SeqsUpTo(DesiredEntries, MaxDesired)
  /\ collaborators \in InitCollaborators
  /\ invitations \in InitInvitations
  /\ nextId = Len(invitations) + 1
  /\ currentCollaborators = <<>>
  /\ pendingInvites = <<>>
  /\ desiredUsernames = <<>>
  /\ pc = "listCollaborators"
  /\ phase = "observe"
  /\ idx = 0
  /\ step = 0
  /\ log = <<>>
  /\ error = NoError
  /\ run = 1
  /\ startCollaborators = collaborators
  /\ startInvitations = invitations
  /\ document = NoDocument
  /\ mainPc = "engine"
  /\ failed = NoError
  /\ successLogged = FALSE
  /\ variant = "manager"

----------------------------------------------------------------------------
(* The run, one action per awaited remote call *)

\* A call as the log keeps it: whether it resolved, what it rejected with, and
\* the pass and iteration that issued it.
Entry(c, ok, msg) ==
  [op |-> c.op, user |-> c.user, perm |-> c.perm, id |-> c.id, ok |-> ok,
   msg |-> msg, phase |-> phase, idx |-> idx]

remoteVars == <<collaborators, invitations, nextId>>
snapshotVars == <<currentCollaborators, pendingInvites, desiredUsernames>>
mainVars == <<document, mainPc, failed, successLogged>>
inputVars == <<desiredCollaborators, run, startCollaborators, startInvitations,
               mainVars, variant>>

\* Mutant of Reject: the rejection is caught and the run goes on to the next
\* call.
Reject_CatchAndContinue(c, message) ==
  LET next == NextAwait(phase, idx, step + 1, currentCollaborators,
                        pendingInvites, desiredUsernames)
  IN /\ pc = "sync"
     /\ log' = Append(log, Entry(c, FALSE, message))
     /\ error' = message
     /\ phase' = next.phase
     /\ idx' = next.idx
     /\ step' = next.step
     /\ UNCHANGED <<remoteVars, snapshotVars, inputVars, pc>>

\* Mutant of Reject: the rejected call is issued again.
Reject_Retry(c, message) ==
  /\ log' = Append(log, Entry(c, FALSE, message))
  /\ error' = message
  /\ UNCHANGED <<remoteVars, snapshotVars, inputVars, pc, phase, idx, step>>

\* A rejected call: the error propagates out of syncCollaborators unchanged.
Reject(c, message) ==
  /\ log' = Append(log, Entry(c, FALSE, message))
  /\ error' = message
  /\ pc' = "failed"
  /\ UNCHANGED <<remoteVars, snapshotVars, inputVars, phase, idx, step>>

\* Mutant of Resolve: after the call the run lists the remote again and goes
\* on with the new snapshot.
Resolve_Relisted(c, remote) ==
  LET next == NextAwait(phase, idx, step + 1, remote.collaborators,
                        remote.invitations, desiredUsernames)
  IN /\ collaborators' = remote.collaborators
     /\ invitations' = remote.invitations
     /\ nextId' = remote.nextId
     /\ currentCollaborators' = remote.collaborators
     /\ pendingInvites' = remote.invitations
     /\ log' = log \o <<Entry(c, TRUE, NoError),
                         Entry(Call("listCollaborators", "", "", 0), TRUE, NoError),
                         Entry(Call("listInvitations", "", "", 0), TRUE, NoError)>>
     /\ phase' = next.phase
     /\ idx' = next.idx
     /\ step' = next.step
     /\ UNCHANGED <<desiredUsernames, inputVars, pc, error>>

\* A resolved mutating call: the remote changes and the run goes on to the
\* next call it awaits.
Resolve(c, remote) ==
  LET next == NextAwait(phase, idx, step + 1, currentCollaborators,
                        pendingInvites, desiredUsernames)
  IN /\ collaborators' = remote.collaborators
     /\ invitations' = remote.invitations
     /\ nextId' = remote.nextId
     /\ log' = Append(log, Entry(c, TRUE, NoError))
     /\ phase' = next.phase
     /\ idx' = next.idx
     /\ step' = next.step
     /\ UNCHANGED <<snapshotVars, inputVars, pc, error>>

\* getCurrentState, first loop: one await per page of repos.listCollaborators
\* (octokit.paginate.iterator), until the remote announces no next page.
ListCollaborators ==
  /\ pc = "listCollaborators"
  /\ variant = "manager"
  /\ \/ LET n == Len(currentCollaborators) \div per_page + 1
        IN /\ currentCollaborators' =
                currentCollaborators \o Page(collaborators, per_page, n)
           /\ log' = Append(log, Entry(Call("listCollaborators", "", "", 0),
                                       TRUE, NoError))
           /\ pc' = IF HasNextPage(collaborators, per_page, n)
                    THEN "listCollaborators" ELSE "listInvitations"
           /\ UNCHANGED <<remoteVars, pendingInvites, desiredUsernames,
                          inputVars, phase, idx, step, error>>
     \/ \E m \in ErrorMessages : Reject(Call("listCollaborators", "", "", 0), m)

\* getCurrentState, second await: one call of repos.listInvitations, whose
\* data is the first page; then getDesiredUsernames, which throws or lets the
\* run enter its first pass.
ListInvitations ==
  /\ pc = "listInvitations"
  /\ variant = "manager"
  /\ \/ /\ getDesiredUsernamesThrows(desiredCollaborators) # NoError
        /\ pendingInvites' = Page(invitations, DefaultPerPage, 1)
        /\ log' = Append(log, Entry(Call("listInvitations", "", "", 0), TRUE, NoError))
        /\ error' = getDesiredUsernamesThrows(desiredCollaborators)
        /\ pc' = "failed"
        /\ UNCHANGED <<remoteVars, currentCollaborators, desiredUsernames,
                       inputVars, phase, idx, step>>
     \/ LET usernames == getDesiredUsernames(desiredCollaborators)
            data == Page(invitations, DefaultPerPage, 1)
            next == NextAwait("addOrUpdate", 1, 0, currentCollaborators,
                              data, usernames)
        IN /\ getDesiredUsernamesThrows(desiredCollaborators) = NoError
           /\ pendingInvites' = data
           /\ desiredUsernames' = usernames
           /\ log' = Append(log, Entry(Call("listInvitations", "", "", 0), TRUE, NoError))
           /\ pc' = "sync"
           /\ phase' = next.phase
           /\ idx' = next.idx
           /\ step' = next.step
           /\ UNCHANGED <<remoteVars, currentCollaborators, inputVars, error>>
     \/ \E m \in ErrorMessages : Reject(Call("listInvitations", "", "", 0), m)

\* The legacy run, first await: one call of repos.listCollaborators, whose
\* data is the first page.
LegacyListCollaborators ==
  /\ pc = "listCollaborators"
  /\ variant = "legacy"
  /\ \/ /\ currentCollaborators' = Page(collaborators, DefaultPerPage, 1)
        /\ log' = Append(log, Entry(Call("listCollaborators", "", "", 0),
                                    TRUE, NoError))
        /\ pc' = "listInvitations"
        /\ UNCHANGED <<remoteVars, pendingInvites, desiredUsernames, inputVars,
                       phase, idx, step, error>>
     \/ \E m \in ErrorMessages : Reject(Call("listCollaborators", "", "", 0), m)

\* What c.username.toLowerCase() throws for a username that is not a string.
LowerCaseOfUndefined == "Cannot read properties of undefined (reading 'toLowerCase')"
LowerCaseNotAFunction == "c.username.toLowerCase is not a function"

\* desiredCollaborators.map((c) => c.username.toLowerCase()) of the legacy
\* run: the message of the TypeError it throws, NoError when it returns.
LegacyUsernamesThrow(cs) ==
  LET bad == Find([i \in 1..Len(cs) |-> ~IsString(cs[i].username)])
  IN IF bad = 0 THEN NoError
     ELSE IF cs[bad].username = JsNumber THEN LowerCaseNotAFunction
     ELSE LowerCaseOfUndefined

\* The legacy run, second await: one call of repos.listInvitations; then the
\* lower-cased usernames, computed without any validation.
LegacyListInvitations ==
  /\ pc = "listInvitations"
  /\ variant = "legacy"
  /\ \/ /\ LegacyUsernamesThrow(desiredCollaborators) # NoError
        /\ pendingInvites' = Page(invitations, DefaultPerPage, 1)
        /\ log' = Append(log, Entry(Call("listInvitations", "", "", 0), TRUE, NoError))
        /\ error' = LegacyUsernamesThrow(desiredCollaborators)
        /\ pc' = "failed"
        /\ UNCHANGED <<remoteVars, currentCollaborators, desiredUsernames,
                       inputVars, phase, idx, step>>
     \/ LET usernames == getDesiredUsernames(desiredCollaborators)
            data == Page(invitations, DefaultPerPage, 1)
            next == NextAwait("addOrUpdate", 1, 0, currentCollaborators,
                              data, usernames)
        IN /\ LegacyUsernamesThrow(desiredCollaborators) = NoError
           /\ pendingInvites' = data
           /\ desiredUsernames' = usernames
           /\ log' = Append(log, Entry(Call("listInvitations", "", "", 0), TRUE, NoError))
           /\ pc' = "sync"
           /\ phase' = next.phase
           /\ idx' = next.idx
           /\ step' = next.step
           /\ UNCHANGED <<remoteVars, currentCollaborators, inputVars, error>>
     \/ \E m \in ErrorMessages : Reject(Call("listInvitations", "", "", 0), m)

\* Mutant of AddCollaborator: a rejected call is issued again.
AddCollaborator_Retried ==
  /\ pc = "sync"
  /\ phase = "addOrUpdate"
  /\ AwaitedCall.op = "addCollaborator"
  /\ \/ \E r \in RemoteAddCollaborator(AwaitedCall.user, AwaitedCall.perm) :
           Resolve(AwaitedCall, r)
     \/ \E m \in ErrorMessages :
           /\ log' = Append(log, Entry(AwaitedCall, FALSE, m))
           /\ error' = m
           /\ UNCHANGED <<remoteVars, snapshotVars, inputVars, pc, phase, idx,
                          step>>

\* await repos.addCollaborator (a new collaborator, a changed role, or the
\* invitation that replaces a deleted one)
AddCollaborator ==
  /\ pc = "sync"
  /\ phase = "addOrUpdate"
  /\ AwaitedCall.op = "addCollaborator"
  /\ \/ /\ AwaitedCall.user # ""
        /\ \E r \in RemoteAddCollaborator(AwaitedCall.user, AwaitedCall.perm) :
              Resolve(AwaitedCall, r)
     \/ /\ AwaitedCall.user = ""
        /\ Reject(AwaitedCall, NotFound)
     \/ \E m \in ErrorMessages : Reject(AwaitedCall, m)

\* await repos.deleteInvitation in handlePendingInvite
DeleteInvitationToUpdate ==
  /\ pc = "sync"
  /\ phase = "addOrUpdate"
  /\ AwaitedCall.op = "deleteInvitation"
  /\ \/ /\ RemoteHasInvitation(AwaitedCall.id)
        /\ Resolve(AwaitedCall, RemoteDeleteInvitation(AwaitedCall.id))
     \/ /\ ~RemoteHasInvitation(AwaitedCall.id)
        /\ Reject(AwaitedCall, NotFound)
     \/ \E m \in ErrorMessages : Reject(AwaitedCall, m)

\* await repos.removeCollaborator in processCollaboratorsToRemove
RemoveCollaborator ==
  /\ pc = "sync"
  /\ phase = "removeCollaborators"
  /\ \/ Resolve(AwaitedCall, RemoteRemoveCollaborator(AwaitedCall.user))
     \/ \E m \in ErrorMessages : Reject(AwaitedCall, m)

\* await repos.deleteInvitation in processInvitesToRemove
DeleteInvitation ==
  /\ pc = "sync"
  /\ phase = "removeInvites"
  /\ \/ /\ RemoteHasInvitation(AwaitedCall.id)
        /\ Resolve(AwaitedCall, RemoteDeleteInvitation(AwaitedCall.id))
     \/ \E m \in ErrorMessages : Reject(AwaitedCall, m)

\* syncCollaborators resolves: no call is left to await.
Return ==
  /\ pc = "sync"
  /\ phase = "end"
  /\ pc' = "done"
  /\ UNCHANGED <<remoteVars, snapshotVars, inputVars, phase, idx, step, log,
                 error>>

\* The caller runs syncCollaborators again, with the same list, right after
\* a run that succeeded.
SecondRun ==
  /\ pc = "done"
  /\ run = 1
  /\ run' = 2
  /\ pc' = "listCollaborators"
  /\ phase' = "observe"
  /\ idx' = 0
  /\ step' = 0
  /\ log' = <<>>
  /\ currentCollaborators' = <<>>
  /\ pendingInvites' = <<>>
  /\ desiredUsernames' = <<>>
  /\ startCollaborators' = collaborators
  /\ startInvitations' = invitations
  /\ UNCHANGED <<remoteVars, desiredCollaborators, error, mainVars, variant>>

Next ==
  \/ ListCollaborators
  \/ ListInvitations
  \/ AddCollaborator
  \/ DeleteInvitationToUpdate
  \/ RemoveCollaborator
  \/ DeleteInvitation
  \/ Return
  \/ SecondRun

Spec == Init /\ [][Next]_vars

----------------------------------------------------------------------------
(* The parser: parseCollaboratorsFile (src/src/collaborator.ts)            *)

\* What a function call gives: the value it returns, or the message of the
\* Error it throws.
Returns(v) == [ok |-> TRUE, value |-> v, message |-> NoError]
Throws(m) == [ok |-> FALSE, value |-> <<>>, message |-> m]

\* The messages of the TypeErrors the runtime throws.
NotAFunction == "role.toLowerCase is not a function"
NotIterable == "team.members is not iterable"
MembersOfNull == "Cannot read properties of null (reading 'members')"

UnableToParse == "Unable to parse collaborators file format"
InvalidFormat == "Invalid collaborator format: "
FailedToParse == "Failed to parse collaborator file: "

\* new CollaboratorObject(username, role):
\* this.role = role ? role.toLowerCase() : 'push'
CollaboratorObject(username, role) ==
  IF Falsy(role) THEN Returns([username |-> username, role |-> "push"])
  ELSE IF IsString(role)
       THEN Returns([username |-> username, role |-> toLowerCase(role)])
       ELSE Throws(NotAFunction)

\* A loop or a map over calls: it throws what the first failing call throws,
\* else it gives the values of the calls, in order.
Collect(rs) ==
  LET bad == Find([i \in 1..Len(rs) |-> ~rs[i].ok])
  IN IF bad = 0 THEN Returns([i \in 1..Len(rs) |-> rs[i].value])
     ELSE Throws(rs[bad].message)

RECURSIVE Flatten(_)
Flatten(ss) == IF ss = <<>> THEN <<>> ELSE Head(ss) \o Flatten(Tail(ss))

\* `${collab}` for an element that is neither a string nor an object.
TemplateString(item) == IF item.kind = "null" THEN "null" ELSE "42"

\* String(role) for the value of a mapping.
String(v) ==
  CASE v = JsNull -> "null"
    [] v = JsNumber -> "42"
    [] OTHER -> v

\* collab.username and collab.role: undefined when the element has no such
\* property.
Username(item) == IF item.kind = "object" THEN item.username ELSE JsUndefined
Role(item) == IF item.kind \in {"object", "team"} THEN item.role ELSE JsUndefined

\* The test for the team format, made on the first element only.
IsTeamFormat(items) == Len(items) > 0 /\ items[1].kind = "team"

\* Mutant of TeamEntries: only the first member of a team is taken.
TeamEntries_FirstMemberOnly(team) ==
  IF team.kind = "null" THEN Throws(MembersOfNull)
  ELSE IF team.kind # "team" THEN Throws(NotIterable)
  ELSE Collect([m \in 1..(IF Len(team.members) > 0 THEN 1 ELSE 0) |->
                  CollaboratorObject(team.members[m].username, team.role)])

\* for (const member of team.members) collaborators.push(...), for one
\* element of the document taken as a team.
TeamEntries(team) ==
  IF team.kind = "null" THEN Throws(MembersOfNull)
  ELSE IF team.kind # "team" THEN Throws(NotIterable)
  ELSE Collect([m \in 1..Len(team.members) |->
                  CollaboratorObject(team.members[m].username, team.role)])

\* The team-format branch.
ParseTeamFormat(items) ==
  LET teams == Collect([i \in 1..Len(items) |-> TeamEntries(items[i])])
  IN IF teams.ok THEN Returns(Flatten(teams.value)) ELSE teams

\* Mutant of StandardEntry: the role of an object element is dropped.
StandardEntry_RoleDropped(collab) ==
  IF collab.kind = "string" THEN CollaboratorObject(collab.value, "push")
  ELSE IF collab.kind \in {"object", "team"}
       THEN CollaboratorObject(Username(collab), "push")
       ELSE Throws(InvalidFormat \o TemplateString(collab))

\* The callback of parsed.map in the standard array branch.
StandardEntry(collab) ==
  IF collab.kind = "string" THEN CollaboratorObject(collab.value, "push")
  ELSE IF collab.kind \in {"object", "team"}
       THEN CollaboratorObject(Username(collab), Role(collab))
       ELSE Throws(InvalidFormat \o TemplateString(collab))

ParseStandardArray(items) ==
  Collect([i \in 1..Len(items) |-> StandardEntry(items[i])])

\* Mutant of ParseMapping: the values are not validated.
ParseMapping_NotValidated(entries) ==
  Collect([i \in 1..Len(entries) |->
             CollaboratorObject(entries[i].key, String(entries[i].value))])

\* The object branch: every value must be a string or null; whatever is
\* thrown inside is replaced by UnableToParse.
ParseMapping(entries) ==
  IF \E i \in 1..Len(entries) :
       ~(IsString(entries[i].value) \/ entries[i].value = JsNull)
  THEN Throws(UnableToParse)
  ELSE LET r == Collect([i \in 1..Len(entries) |->
                           CollaboratorObject(entries[i].key,
                                              String(entries[i].value))])
       IN IF r.ok THEN r ELSE Throws(UnableToParse)

\* The body of the try block, on what reading and decoding the file gives.
ParseDocument(doc) ==
  CASE doc.kind \in {"unreadable", "malformed"} -> Throws(doc.message)
    [] doc.kind = "sequence" ->
         IF IsTeamFormat(doc.items) THEN ParseTeamFormat(doc.items)
         ELSE ParseStandardArray(doc.items)
    [] doc.kind = "mapping" -> ParseMapping(doc.entries)
    [] OTHER -> Throws(UnableToParse)

\* Mutant of parseCollaboratorsFile: the error is thrown again as it is.
parseCollaboratorsFile_Rethrown(doc) ==
  ParseDocument(doc)

\* parseCollaboratorsFile: the catch block wraps the message of every Error.
parseCollaboratorsFile(doc) ==
  LET r == ParseDocument(doc)
  IN IF r.ok THEN r ELSE Throws(FailedToParse \o r.message)

\* mapRoleToPermission of the legacy parser (src/src/main.ts).
mapRoleToPermission(role) ==
  CASE toLowerCase(role) = "admin" -> "admin"
    [] toLowerCase(role) = "member" -> "push"
    [] toLowerCase(role) \in {"pull", "push", "maintain", "triage"} ->
         toLowerCase(role)
    [] OTHER -> "push"

\* The legacy parser of src/src/main.ts.  Its entries carry the level as
\* permission; the list is kept in the shape of the engine's entries (see
\* LegacyCollaborator).
LegacyEntry(username, permission) == [username |-> username, role |-> permission]

\* The messages of the TypeErrors the legacy parser can run into.
CannotUseIn == "Cannot use 'in' operator to search for 'team' in "
RoleOfNull == "Cannot read properties of null (reading 'role')"
UsernameOfNull == "Cannot read properties of null (reading 'username')"
LowerCaseOfNull == "Cannot read properties of null (reading 'toLowerCase')"

\* parsed.length > 0 && 'team' in parsed[0] && 'members' in parsed[0]: the
\* in operator throws when the first element is not an object.
LegacyIsTeamFormat(items) ==
  IF Len(items) = 0 THEN Returns(FALSE)
  ELSE IF items[1].kind = "string" THEN Throws(CannotUseIn \o items[1].value)
  ELSE IF items[1].kind \in {"number", "null"}
       THEN Throws(CannotUseIn \o TemplateString(items[1]))
  ELSE Returns(items[1].kind = "team")

\* The body of the loop over the teams, for one element of the document.
LegacyTeamEntries(team) ==
  IF team.kind = "null" THEN Throws(RoleOfNull)
  ELSE IF Role(team) = JsUndefined THEN Throws(LowerCaseOfUndefined)
  ELSE IF Role(team) = JsNull THEN Throws(LowerCaseOfNull)
  ELSE IF ~IsString(Role(team)) THEN Throws(NotAFunction)
  ELSE IF team.kind # "team" THEN Throws(NotIterable)
  ELSE Returns([m \in 1..Len(team.members) |->
                  LegacyEntry(team.members[m].username,
                              mapRoleToPermission(team.role))])

\* The callback of parsed.map: the documents of the model write the level
\* as role, so collab.permission is undefined and the default applies.
LegacyStandardEntry(collab) ==
  IF collab.kind = "string" THEN Returns(LegacyEntry(collab.value, "push"))
  ELSE IF collab.kind = "null" THEN Throws(UsernameOfNull)
  ELSE Returns(LegacyEntry(Username(collab), "push"))

LegacyMappingEntry(entry) ==
  LegacyEntry(entry.key, IF IsString(entry.value) THEN entry.value ELSE "push")

\* The body of the try block of the legacy parser.
LegacyParseDocument(doc) ==
  CASE doc.kind \in {"unreadable", "malformed"} -> Throws(doc.message)
    [] doc.kind = "sequence" ->
         LET team == LegacyIsTeamFormat(doc.items)
             teams == Collect([i \in 1..Len(doc.items) |->
                                 LegacyTeamEntries(doc.items[i])])
         IN IF ~team.ok THEN team
            ELSE IF team.value
            THEN IF teams.ok THEN Returns(Flatten(teams.value)) ELSE teams
            ELSE Collect([i \in 1..Len(doc.items) |->
                            LegacyStandardEntry(doc.items[i])])
    [] doc.kind = "mapping" ->
         Returns([i \in 1..Len(doc.entries) |->
                    LegacyMappingEntry(doc.entries[i])])
    [] OTHER -> Throws(UnableToParse)

\* The legacy parseCollaboratorsFile: its catch block wraps the message too.
LegacyParseCollaboratorsFile(doc) ==
  LET r == LegacyParseDocument(doc)
  IN IF r.ok THEN r ELSE Throws(FailedToParse \o r.message)

----------------------------------------------------------------------------
(* Collaborator files *)

MaxItems == 2
MaxMembers == 2
MaxRunItems == 1

\* Roles as the files of the model write them: a level in mixed case, the
\* role member, a level as it is, and a role that is not known.
TeamRoles == {"Admin", "member", "pull"}
FlatRoles == {JsUndefined, JsNull, JsNumber, "push", "Admin", "member", "owner"}
MapValues == {"Admin", "member", "pull", JsNull, JsNumber}

\* Team members: one with metadata, one without.
Members ==
  {[username |-> "a", name |-> "Al"], [username |-> "b", name |-> JsUndefined]}

StringItems == {[kind |-> "string", value |-> l] : l \in Logins}
ObjectItems ==
  {[kind |-> "object", username |-> u, role |-> r] :
     u \in {"a", "b", JsUndefined}, r \in FlatRoles}
TeamItems ==
  {[kind |-> "team", team |-> "T", role |-> r, members |-> ms] :
     r \in TeamRoles, ms \in SeqsUpTo(Members, MaxMembers)}
NumberItem == [kind |-> "number"]
NullItem == [kind |-> "null"]

Items == StringItems \cup ObjectItems \cup TeamItems \cup {NumberItem, NullItem}

\* A mapping has each key once.
MappingEntries(n) ==
  {es \in SeqsUpTo([key : Logins, value : MapValues], n) :
     \A i, j \in 1..Len(es) : es[i].key = es[j].key => i = j}

ReadErrors == {"File not found"}
YamlErrors == {"Nested mappings are not allowed in compact mappings"}

Scalar == [kind |-> "scalar"]
EmptyDocument == [kind |-> "null"]
MissingFile == [kind |-> "missing"]

\* What reading and decoding the file gives: a failure to read, a failure to
\* decode, a sequence, a mapping, a scalar, or null for an empty document.
DocumentsUpTo(n) ==
  {[kind |-> "sequence", items |-> s] : s \in SeqsUpTo(Items, n)}
    \cup {[kind |-> "mapping", entries |-> es] : es \in MappingEntries(n)}
    \cup {[kind |-> "unreadable", message |-> m] : m \in ReadErrors}
    \cup {[kind |-> "malformed", message |-> m] : m \in YamlErrors}
    \cup {Scalar, EmptyDocument}

----------------------------------------------------------------------------
(* SpecParse: parseCollaboratorsFile called on a collaborator file *)

\* No run of the engine has started.
EngineIdle ==
  /\ desiredCollaborators = <<>>
  /\ currentCollaborators = <<>>
  /\ pendingInvites = <<>>
  /\ desiredUsernames = <<>>
  /\ pc = "idle"
  /\ phase = "observe"
  /\ idx = 0
  /\ step = 0
  /\ log = <<>>
  /\ error = NoError
  /\ run = 1
  /\ startCollaborators = collaborators
  /\ startInvitations = invitations
  /\ failed = NoError
  /\ successLogged = FALSE

ParseInit ==
  /\ document \in DocumentsUpTo(MaxItems)
  /\ mainPc = "parse"
  /\ collaborators = <<>>
  /\ invitations = <<>>
  /\ nextId = 1
  /\ variant = "manager"
  /\ EngineIdle

\* await parseCollaboratorsFile(filePath): the list it resolves with, or the
\* message of the error it rejects with.
ParseCollaboratorsFile ==
  /\ mainPc = "parse"
  /\ LET r == parseCollaboratorsFile(document)
     IN IF r.ok
        THEN /\ desiredCollaborators' = r.value
             /\ mainPc' = "parsed"
             /\ error' = error
        ELSE /\ desiredCollaborators' = desiredCollaborators
             /\ mainPc' = "parseFailed"
             /\ error' = r.message
  /\ UNCHANGED <<remoteVars, snapshotVars, pc, phase, idx, step, log, run,
                 startCollaborators, startInvitations, document, failed,
                 successLogged, variant>>

ParseNext == ParseCollaboratorsFile

SpecParse == ParseInit /\ [][ParseNext]_vars

----------------------------------------------------------------------------
(* SpecRun: main.run (src/src/main.ts) *)

FilePath == "/repo/collaborators.yaml"
FileNotFound == "Collaborator file not found: "

\* The repositories the runs of SpecRun start from.
RunCollaborators == {<<>>, <<[login |-> "a", role_name |-> "push"]>>}
RunInvitations == {<<>>, WithIds(<<[invitee |-> "b", permissions |-> "admin"]>>)}

RunInit ==
  /\ document \in DocumentsUpTo(MaxRunItems) \cup {MissingFile}
  /\ mainPc = "resolve"
  /\ variant \in {"manager", "legacy"}
  /\ collaborators \in RunCollaborators
  /\ invitations \in RunInvitations
  /\ nextId = Len(invitations) + 1
  /\ EngineIdle

engineVars == <<desiredCollaborators, remoteVars, snapshotVars, pc, phase,
                idx, step, log, error, run, startCollaborators,
                startInvitations, variant>>

\* Mutant of Catch: the error is caught and nothing is reported.
Catch_Swallowed(message) ==
  /\ failed' = failed
  /\ mainPc' = "end"
  /\ successLogged' = successLogged

\* catch (error) { if (error instanceof Error) core.setFailed(error.message) }
\* Everything the code of the repository throws is an Error.
Catch(message) ==
  /\ failed' = message
  /\ mainPc' = "end"
  /\ successLogged' = successLogged

\* getInputsAndDependencies, then resolveFilePath: it throws when the file
\* does not exist.
ResolveFilePath ==
  /\ mainPc = "resolve"
  /\ IF document.kind = "missing"
     THEN Catch(FileNotFound \o FilePath)
     ELSE /\ mainPc' = "load"
          /\ UNCHANGED <<failed, successLogged>>
  /\ UNCHANGED <<engineVars, document>>

\* Mutant of LoadCollaboratorsFile: a file that fails to parse is taken for
\* an empty list.
LoadCollaboratorsFile_EmptyOnFailure ==
  /\ mainPc = "load"
  /\ variant = "manager"
  /\ LET r == parseCollaboratorsFile(document)
     IN /\ desiredCollaborators' = r.value
        /\ pc' = "listCollaborators"
        /\ mainPc' = "sync"
        /\ UNCHANGED <<failed, successLogged>>
  /\ UNCHANGED <<remoteVars, snapshotVars, phase, idx, step, log, error, run,
                 startCollaborators, startInvitations, document, variant>>

\* await loadCollaboratorsFile(filePath); when it resolves, run constructs
\* the manager and calls syncCollaborators with the list.
LoadCollaboratorsFile ==
  /\ mainPc = "load"
  /\ variant = "manager"
  /\ LET r == parseCollaboratorsFile(document)
     IN IF r.ok
        THEN /\ desiredCollaborators' = r.value
             /\ pc' = "listCollaborators"
             /\ mainPc' = "sync"
             /\ UNCHANGED <<failed, successLogged>>
        ELSE /\ Catch(r.message)
             /\ UNCHANGED <<desiredCollaborators, pc>>
  /\ UNCHANGED <<remoteVars, snapshotVars, phase, idx, step, log, error, run,
                 startCollaborators, startInvitations, document, variant>>

\* The legacy run: await parseCollaboratorsFile(filePath) of main.ts; when
\* it resolves, the run goes on to its listings.
LegacyLoadCollaboratorsFile ==
  /\ mainPc = "load"
  /\ variant = "legacy"
  /\ LET r == LegacyParseCollaboratorsFile(document)
     IN IF r.ok
        THEN /\ desiredCollaborators' = r.value
             /\ pc' = "listCollaborators"
             /\ mainPc' = "sync"
             /\ UNCHANGED <<failed, successLogged>>
        ELSE /\ Catch(r.message)
             /\ UNCHANGED <<desiredCollaborators, pc>>
  /\ UNCHANGED <<remoteVars, snapshotVars, phase, idx, step, log, error, run,
                 startCollaborators, startInvitations, document, variant>>

\* syncCollaborators rejected: the catch block of run.
SyncFailed ==
  /\ mainPc = "sync"
  /\ pc = "failed"
  /\ Catch(error)
  /\ UNCHANGED <<engineVars, document>>

\* syncCollaborators resolved: core.info(success), and run returns.
LogSuccess ==
  /\ mainPc = "sync"
  /\ pc = "done"
  /\ successLogged' = TRUE
  /\ mainPc' = "end"
  /\ UNCHANGED <<engineVars, document, failed>>

RunNext ==
  \/ ResolveFilePath
  \/ LoadCollaboratorsFile
  \/ LegacyLoadCollaboratorsFile
  \/ ListCollaborators
  \/ ListInvitations
  \/ LegacyListCollaborators
  \/ LegacyListInvitations
  \/ AddCollaborator
  \/ DeleteInvitationToUpdate
  \/ RemoveCollaborator
  \/ DeleteInvitation
  \/ Return
  \/ SyncFailed
  \/ LogSuccess

SpecRun == RunInit /\ [][RunNext]_vars

----------------------------------------------------------------------------
(* SpecConcurrent: syncCollaborators while another administrator, or an     *)
(* invitee, changes the repository.  The changes are the remote's own       *)
(* operations; they are logged with the calls of the run, in the order they *)
(* happen.                                                                  *)

MaxExternal == 1

ExternalOps == {"adminAddCollaborator", "adminSetPermission", "acceptInvitation"}

ExternalChanges == {q \in 1..Len(log) : log[q].op \in ExternalOps}

\* The desired lists and the repositories the runs of SpecConcurrent start
\* from.
ConcurrentEntries == [username : {"a", "b"}, role : ModelRoles]

ConcurrentCollaborators ==
  {x \o y : x \in {<<>>, <<[login |-> "a", role_name |-> "push"]>>},
            y \in {<<>>, <<[login |-> "b", role_name |-> "push"]>>,
                   <<[login |-> "b", role_name |-> "admin"]>>}}

ConcurrentInvitations ==
  {WithIds(x \o y) :
     x \in {<<>>, <<[invitee |-> "a", permissions |-> "push"]>>,
            <<[invitee |-> "a", permissions |-> "admin"]>>},
     y \in {<<>>, <<[invitee |-> "b", permissions |-> "push"]>>}}

ConcurrentInit ==
  /\ desiredCollaborators \in SeqsUpTo(ConcurrentEntries, MaxDesired)
  /\ collaborators \in ConcurrentCollaborators
  /\ invitations \in ConcurrentInvitations
  /\ nextId = Len(invitations) + 1
  /\ currentCollaborators = <<>>
  /\ pendingInvites = <<>>
  /\ desiredUsernames = <<>>
  /\ pc = "listCollaborators"
  /\ phase = "observe"
  /\ idx = 0
  /\ step = 0
  /\ log = <<>>
  /\ error = NoError
  /\ run = 1
  /\ startCollaborators = collaborators
  /\ startInvitations = invitations
  /\ document = NoDocument
  /\ mainPc = "engine"
  /\ failed = NoError
  /\ successLogged = FALSE
  /\ variant = "manager"

\* A change by somebody else: it happens after the Observe phase, while the
\* run still has a call to issue.
External(c, remote) ==
  /\ pc = "sync"
  /\ phase # "end"
  /\ Cardinality(ExternalChanges) < MaxExternal
  /\ collaborators' = remote.collaborators
  /\ invitations' = remote.invitations
  /\ nextId' = remote.nextId
  /\ log' = Append(log, Entry(c, TRUE, NoError))
  /\ UNCHANGED <<snapshotVars, inputVars, pc, phase, idx, step, error>>

\* Another administrator makes a principal a collaborator.
AdminAddCollaborator ==
  \E l \in {"a", "b"}, r \in ModelRoles :
    /\ \A k \in 1..Len(collaborators) :
         toLowerCase(collaborators[k].login) # toLowerCase(l)
    /\ External(Call("adminAddCollaborator", l, r, 0),
                Remote(Append(collaborators, [login |-> l, role_name |-> r]),
                       invitations, nextId))

\* Another administrator changes the permission of a collaborator.
AdminSetPermission ==
  \E k \in 1..Len(collaborators), r \in ModelRoles :
    /\ collaborators[k].role_name # r
    /\ External(Call("adminSetPermission", collaborators[k].login, r, 0),
                Remote([collaborators EXCEPT ![k].role_name = r], invitations,
                       nextId))

\* An invitee accepts an invitation: the invitation is gone and the invitee
\* is a collaborator with the permission it offered.
AcceptInvitation ==
  \E k \in 1..Len(invitations) :
    LET v == invitations[k]
        Others(w) == w.id # v.id
    IN /\ v.invitee # NoInvitee
       /\ \A m \in 1..Len(collaborators) :
            toLowerCase(collaborators[m].login) # toLowerCase(v.invitee)
       /\ External(Call("acceptInvitation", v.invitee, v.permissions, v.id),
                   Remote(Append(collaborators,
                                 [login |-> v.invitee,
                                  role_name |-> v.permissions]),
                          SelectSeq(invitations, Others), nextId))

ConcurrentNext ==
  \/ ListCollaborators
  \/ ListInvitations
  \/ AddCollaborator
  \/ DeleteInvitationToUpdate
  \/ RemoveCollaborator
  \/ DeleteInvitation
  \/ Return
  \/ AdminAddCollaborator
  \/ AdminSetPermission
  \/ AcceptInvitation

SpecConcurrent == ConcurrentInit /\ [][ConcurrentNext]_vars

----------------------------------------------------------------------------
(* Runs whose remote calls all return *)

\* Valid entries for two principals, and one entry without username.
FairEntries == ConcurrentEntries \cup [username : {JsUndefined}, role : {"push"}]

FairInit ==
  /\ desiredCollaborators \in SeqsUpTo(FairEntries, MaxDesired)
  /\ collaborators \in ConcurrentCollaborators
  /\ invitations \in ConcurrentInvitations
  /\ nextId = Len(invitations) + 1
  /\ currentCollaborators = <<>>
  /\ pendingInvites = <<>>
  /\ desiredUsernames = <<>>
  /\ pc = "listCollaborators"
  /\ phase = "observe"
  /\ idx = 0
  /\ step = 0
  /\ log = <<>>
  /\ error = NoError
  /\ run = 1
  /\ startCollaborators = collaborators
  /\ startInvitations = invitations
  /\ document = NoDocument
  /\ mainPc = "engine"
  /\ failed = NoError
  /\ successLogged = FALSE
  /\ variant = "manager"

\* Every remote call returns, with a result or with an error, and the
\* single-threaded run goes on with its next step when it has: the steps of
\* syncCollaborators are weakly fair.  Whether the caller runs it a second
\* time is left open.
SyncStep ==
  \/ ListCollaborators
  \/ ListInvitations
  \/ AddCollaborator
  \/ DeleteInvitationToUpdate
  \/ RemoveCollaborator
  \/ DeleteInvitation
  \/ Return

SpecFair == FairInit /\ [][Next]_vars /\ WF_vars(SyncStep)

----------------------------------------------------------------------------
(* SpecPaged: syncCollaborators, and the legacy inline run of main.ts,      *)
(* against repositories whose listings fit in one page or need a second.    *)

\* The k-th collaborator and the k-th invitee of a large repository.
CollaboratorLogin(k) == "c" \o ToString(k)
InviteeLogin(k) == "i" \o ToString(k)

ManyCollaborators(n) ==
  [k \in 1..n |-> [login |-> CollaboratorLogin(k), role_name |-> "push"]]

ManyInvitations(n) ==
  [k \in 1..n |-> [id |-> k, invitee |-> InviteeLogin(k), permissions |-> "push"]]

\* Listings of one entry, of exactly one page, and of one entry more.
PagedCollaborators ==
  {ManyCollaborators(n) :
     n \in {0, 1, DefaultPerPage, DefaultPerPage + 1, per_page, per_page + 1}}

PagedInvitations ==
  {ManyInvitations(n) : n \in {0, 1, DefaultPerPage, DefaultPerPage + 1}}

\* Desired lists: nobody; the first and the last collaborator, or invitee, of
\* a listing one entry longer than a page, with the role they hold or
\* another one; an empty username; a username that is not a string.
PagedDesired ==
  {<<>>}
    \cup {<<[username |-> l, role |-> r]>> :
            l \in {CollaboratorLogin(1), CollaboratorLogin(DefaultPerPage + 1),
                   CollaboratorLogin(per_page + 1), InviteeLogin(1),
                   InviteeLogin(DefaultPerPage + 1)},
            r \in ModelRoles}
    \cup {<<c>> : c \in InvalidEntries}

PagedInit ==
  /\ variant \in {"manager", "legacy"}
  /\ desiredCollaborators \in PagedDesired
  /\ collaborators \in PagedCollaborators
  /\ invitations \in PagedInvitations
  /\ nextId = Len(invitations) + 1
  /\ currentCollaborators = <<>>
  /\ pendingInvites = <<>>
  /\ desiredUsernames = <<>>
  /\ pc = "listCollaborators"
  /\ phase = "observe"
  /\ idx = 0
  /\ step = 0
  /\ log = <<>>
  /\ error = NoError
  /\ run = 1
  /\ startCollaborators = collaborators
  /\ startInvitations = invitations
  /\ document = NoDocument
  /\ mainPc = "engine"
  /\ failed = NoError
  /\ successLogged = FALSE

PagedNext ==
  \/ ListCollaborators
  \/ ListInvitations
  \/ LegacyListCollaborators
  \/ LegacyListInvitations
  \/ AddCollaborator
  \/ DeleteInvitationToUpdate
  \/ RemoveCollaborator
  \/ DeleteInvitation
  \/ Return

SpecPaged == PagedInit /\ [][PagedNext]_vars

----------------------------------------------------------------------------
(* Vocabulary of the properties *)

DesiredIdx == 1..Len(desiredCollaborators)
LogIdx == 1..Len(log)

SamePrincipal(x, y) == toLowerCase(x) = toLowerCase(y)

\* The snapshot has been taken: the run is in or past its passes.
Observed == phase # "observe"

Mutating(e) == e.op \in {"addCollaborator", "removeCollaborator", "deleteInvitation"}

\* The calls the processing of desired entry i issued.
CausedBy(i) == {q \in LogIdx : log[q].phase = "addOrUpdate" /\ log[q].idx = i}

\* The lower-cased desired usernames, computed from the list itself.
DesiredPrincipals ==
  {toLowerCase(desiredCollaborators[i].username) : i \in DesiredIdx}

\* The snapshot holds a collaborator for the principal of username u.
ObservedCollaborator(u) ==
  \E k \in 1..Len(currentCollaborators) :
    SamePrincipal(currentCollaborators[k].login, u)

\* The invitations of the snapshot whose invitee is the principal of u.
ObservedInvites(u) ==
  {k \in 1..Len(pendingInvites) :
     /\ pendingInvites[k].invitee # NoInvitee
     /\ SamePrincipal(pendingInvites[k].invitee, u)}

\* Entry i matches a collaborator with the desired role, or matches no
\* collaborator and an invitation that offers the desired role.
AlreadyCorrect(i) ==
  LET d == desiredCollaborators[i]
  IN \/ \E k \in 1..Len(currentCollaborators) :
          /\ SamePrincipal(currentCollaborators[k].login, d.username)
          /\ currentCollaborators[k].role_name = d.role
     \/ /\ ~ObservedCollaborator(d.username)
        /\ \E k \in ObservedInvites(d.username) :
             pendingInvites[k].permissions = d.role

\* Entry i matches no collaborator and no invitation, or matches a
\* collaborator with another role.
NeedsGrant(i) ==
  LET d == desiredCollaborators[i]
  IN \/ ~ObservedCollaborator(d.username) /\ ObservedInvites(d.username) = {}
     \/ \E k \in 1..Len(currentCollaborators) :
          /\ SamePrincipal(currentCollaborators[k].login, d.username)
          /\ currentCollaborators[k].role_name # d.role

\* Entry i matches no collaborator and an invitation that offers another
\* permission.
NeedsReplace(i) ==
  LET d == desiredCollaborators[i]
  IN /\ ~ObservedCollaborator(d.username)
     /\ \E k \in ObservedInvites(d.username) :
          pendingInvites[k].permissions # d.role

\* On the remote, the principal of d is a collaborator with exactly d's role
\* or holds a pending invitation that offers exactly d's role.
Granted(d) ==
  \/ \E k \in 1..Len(collaborators) :
       /\ SamePrincipal(collaborators[k].login, d.username)
       /\ collaborators[k].role_name = d.role
  \/ \E k \in 1..Len(invitations) :
       /\ invitations[k].invitee # NoInvitee
       /\ SamePrincipal(invitations[k].invitee, d.username)
       /\ invitations[k].permissions = d.role

----------------------------------------------------------------------------
(* C1: after a run that succeeds, every entry of the desired list names a  *)
(* principal that is a collaborator with exactly the requested permission  *)
(* or holds a pending invitation with exactly the requested permission,    *)
(* for every desired list and every initial remote state.                  *)
(* The code breaks it on a repository with more invitations than one page  *)
(* of the listing holds: a desired invitee beyond the page is added        *)
(* without its invitation being replaced.  (Two entries that name one      *)
(* principal with different roles cannot both be granted either.)          *)
C1_EveryEntryGranted ==
  pc = "done" => \A i \in DesiredIdx : Granted(desiredCollaborators[i])

----------------------------------------------------------------------------
(* C2: after a run that succeeds, every collaborator that was on the       *)
(* remote and whose lower-cased login is not a lower-cased desired         *)
(* username is no longer a collaborator, and every pending invitation that *)
(* had an invitee whose lower-cased login is not a lower-cased desired     *)
(* username no longer exists.                                              *)
(* The code breaks it on a repository with more invitations than one page  *)
(* of the listing holds: the invitations beyond the page are never seen.   *)
C2_UndesiredRevoked ==
  pc = "done" =>
    /\ \A k \in 1..Len(startCollaborators) :
         toLowerCase(startCollaborators[k].login) \notin DesiredPrincipals
           => \A m \in 1..Len(collaborators) :
                ~SamePrincipal(collaborators[m].login,
                               startCollaborators[k].login)
    /\ \A k \in 1..Len(startInvitations) :
         (/\ startInvitations[k].invitee # NoInvitee
          /\ toLowerCase(startInvitations[k].invitee) \notin DesiredPrincipals)
           => \A m \in 1..Len(invitations) :
                invitations[m].id # startInvitations[k].id

----------------------------------------------------------------------------
(* C3: idempotence: for any desired list D and any remote state R such     *)
(* that one run of syncCollaborators(D) against R succeeds, a second run   *)
(* right after it, the remote unchanged in between, issues no mutating     *)
(* call: no addCollaborator, no removeCollaborator, no deleteInvitation.   *)
(* The code breaks it for a list that names one principal twice with       *)
(* different roles: each run flips the permission.                         *)
C3_SecondRunIssuesNoMutation ==
  run = 2 => \A q \in LogIdx : ~Mutating(log[q])

----------------------------------------------------------------------------
(* C4: invitation replace-on-change: when a desired identity matches no    *)
(* collaborator but matches a pending invitation whose offered permission  *)
(* differs from the desired one, the run calls deleteInvitation with that  *)
(* invitation's id and then addCollaborator with the desired permission,   *)
(* and the addCollaborator call for that identity never precedes the       *)
(* deleteInvitation call.                                                  *)
C4_DeleteThenAdd ==
  /\ \A q \in LogIdx :
       (/\ log[q].op = "addCollaborator"
        /\ ~ObservedCollaborator(log[q].user))
         => \A k \in ObservedInvites(log[q].user) :
              \E r \in 1..(q - 1) :
                /\ log[r].op = "deleteInvitation"
                /\ log[r].id = pendingInvites[k].id
                /\ log[r].ok
  /\ pc = "done" =>
       \A i \in DesiredIdx :
         NeedsReplace(i) =>
           \A k \in ObservedInvites(desiredCollaborators[i].username) :
             \E r, q \in LogIdx :
               /\ r < q
               /\ log[r].op = "deleteInvitation"
               /\ log[r].id = pendingInvites[k].id
               /\ log[q].op = "addCollaborator"
               /\ log[q].user = desiredCollaborators[i].username
               /\ log[q].perm = desiredCollaborators[i].role

C4_Witness ==
  /\ pc = "done"
  /\ run = 1
  /\ \E i \in DesiredIdx :
       /\ NeedsReplace(i)
       /\ desiredCollaborators[i].username = "A"
       /\ \E q \in CausedBy(i) : log[q].op = "addCollaborator"

----------------------------------------------------------------------------
----------------------------------------------------------------------------
\* The removeCollaborator calls of the run that carry this login.
RemoveCalls(login) ==
  {q \in LogIdx : log[q].op = "removeCollaborator" /\ log[q].user = login}

ExactlyTheUndesiredRemoved ==
  /\ \A k \in 1..Len(currentCollaborators) :
       Cardinality(RemoveCalls(currentCollaborators[k].login)) =
         IF toLowerCase(currentCollaborators[k].login) \in DesiredPrincipals
         THEN 0 ELSE 1
  /\ \A q \in LogIdx :
       log[q].op = "removeCollaborator"
         => \E k \in 1..Len(currentCollaborators) :
              currentCollaborators[k].login = log[q].user

\* Observed collaborator k is named by a desired entry with its current role.
DesiredAsIs(k) ==
  \E i \in DesiredIdx :
    /\ SamePrincipal(desiredCollaborators[i].username,
                     currentCollaborators[k].login)
    /\ desiredCollaborators[i].role = currentCollaborators[k].role_name

----------------------------------------------------------------------------
(* C7: already-correct entries are no-ops: a desired entry that matches an *)
(* observed collaborator whose role equals the desired role, or that       *)
(* matches no collaborator but matches an observed pending invitation      *)
(* whose offered permission equals the desired role, causes no             *)
(* addCollaborator, no removeCollaborator and no deleteInvitation call for *)
(* that principal.                                                         *)
C7_AlreadyCorrectIsNoOp ==
  Observed =>
    \A i \in DesiredIdx :
      AlreadyCorrect(i) =>
        /\ CausedBy(i) = {}
        /\ \A q \in LogIdx :
             log[q].phase \in {"removeCollaborators", "removeInvites"} =>
               /\ ~SamePrincipal(log[q].user, desiredCollaborators[i].username)
               /\ \A k \in ObservedInvites(desiredCollaborators[i].username) :
                    log[q].id # pendingInvites[k].id

C7_Witness ==
  /\ pc = "done"
  /\ Len(desiredCollaborators) = 2
  /\ AlreadyCorrect(1)
  /\ ~ObservedCollaborator(desiredCollaborators[1].username)
  /\ AlreadyCorrect(2)
  /\ ObservedCollaborator(desiredCollaborators[2].username)
  /\ \E q \in LogIdx : log[q].op = "listInvitations" /\ log[q].ok

----------------------------------------------------------------------------
\* The scenario of the specification, alice as a and bob as b.
ScenarioAliceBob ==
  /\ desiredCollaborators = <<[username |-> "a", role |-> "push"],
                              [username |-> "b", role |-> "admin"]>>
  /\ currentCollaborators = <<[login |-> "a", role_name |-> "push"]>>
  /\ pendingInvites = <<>>

(* C8: a desired entry that matches no observed collaborator and no        *)
(* observed invitation, or that matches an observed collaborator whose     *)
(* role differs from the desired role, causes exactly one addCollaborator  *)
(* call carrying the username as written in the desired list and the       *)
(* desired role, and no deleteInvitation call; entries that are already    *)
(* correct cause none (desired alice/push and bob/admin against            *)
(* collaborator alice/push: one call, for bob at admin, and nothing else). *)
C8_ExactlyOneAdd ==
  pc = "done" =>
    /\ \A i \in DesiredIdx :
         /\ NeedsGrant(i) =>
              /\ Cardinality(CausedBy(i)) = 1
              /\ \A q \in CausedBy(i) :
                   /\ log[q].op = "addCollaborator"
                   /\ log[q].user = desiredCollaborators[i].username
                   /\ log[q].perm = desiredCollaborators[i].role
         /\ AlreadyCorrect(i) => CausedBy(i) = {}
    /\ ScenarioAliceBob =>
         LET calls == SelectSeq(log, Mutating)
         IN /\ Len(calls) = 1
            /\ calls[1].op = "addCollaborator"
            /\ calls[1].user = "b"
            /\ calls[1].perm = "admin"

C8_Witness ==
  /\ pc = "done"
  /\ Len(desiredCollaborators) = 2
  /\ desiredCollaborators[1].username = "A"
  /\ ~ObservedCollaborator("A")
  /\ ObservedInvites("A") = {}
  /\ ObservedCollaborator(desiredCollaborators[2].username)
  /\ NeedsGrant(2)

----------------------------------------------------------------------------
\* The invitations of a list that carry no invitee.
NullInvites(invs) == {k \in 1..Len(invs) : invs[k].invitee = NoInvitee}

(* C9: null invitee skip: a pending invitation that carries no invitee is  *)
(* never the target of a deleteInvitation call, in any pass and whatever   *)
(* the desired list contains, and its presence does not stop the run from  *)
(* adding desired identities.                                              *)
C9_NullInviteeSkipped ==
  /\ \A q \in LogIdx :
       log[q].op = "deleteInvitation" =>
         \A k \in NullInvites(startInvitations) :
           log[q].id # startInvitations[k].id
  /\ pc = "done" =>
       /\ \A k \in NullInvites(startInvitations) :
            \E m \in 1..Len(invitations) : invitations[m] = startInvitations[k]
       /\ NullInvites(pendingInvites) # {} =>
            \A i \in DesiredIdx :
              (/\ ~ObservedCollaborator(desiredCollaborators[i].username)
               /\ ObservedInvites(desiredCollaborators[i].username) = {})
                => \E q \in CausedBy(i) :
                     /\ log[q].op = "addCollaborator"
                     /\ log[q].user = desiredCollaborators[i].username
                     /\ log[q].ok

C9_Witness ==
  /\ pc = "done"
  /\ run = 1
  /\ NullInvites(pendingInvites) # {}
  /\ \E q \in LogIdx : log[q].op = "deleteInvitation" /\ log[q].phase = "removeInvites"
  /\ \E i \in DesiredIdx :
       /\ ~ObservedCollaborator(desiredCollaborators[i].username)
       /\ ObservedInvites(desiredCollaborators[i].username) = {}

----------------------------------------------------------------------------
(* C10: any failure of a remote call (listCollaborators, listInvitations,  *)
(* addCollaborator, removeCollaborator, deleteInvitation) aborts the run   *)
(* at once: syncCollaborators rejects with an error carrying the message   *)
(* of the underlying cause, the failed call is not retried, and no further *)
(* remote call of any kind is issued after it.                             *)
C10_FailureAborts ==
  /\ \A q \in LogIdx :
       ~log[q].ok =>
         /\ q = Len(log)
         /\ pc = "failed"
         /\ error = log[q].msg
         /\ error # NoError
  /\ (pc = "failed" /\ error \in ErrorMessages \cup {NotFound}) =>
       (log # <<>> /\ ~log[Len(log)].ok)

C10_Witness ==
  /\ pc = "failed"
  /\ run = 1
  /\ Len(log) >= 5
  /\ log[Len(log)].op = "deleteInvitation"
  /\ log[Len(log)].phase = "removeInvites"
  /\ \E q \in LogIdx : log[q].op = "removeCollaborator" /\ log[q].ok

----------------------------------------------------------------------------
\* A username the engine must refuse: missing (undefined, null, empty) or not
\* a string.
InvalidUsername(c) == c.username \in {JsUndefined, JsNull, "", JsNumber}

InvalidIdx == {i \in DesiredIdx : InvalidUsername(desiredCollaborators[i])}

----------------------------------------------------------------------------
\* What parsing the collaborator file gives in this run.
RunParse ==
  IF variant = "legacy" THEN LegacyParseCollaboratorsFile(document)
  ELSE parseCollaboratorsFile(document)

FileUnusable == document.kind = "missing" \/ ~RunParse.ok

(* C12: process exit behaviour of run: whenever file resolution, parsing   *)
(* or synchronization throws, run reports failure with the error's message *)
(* (core.setFailed) and never logs the success message; when none of them  *)
(* throws, run logs success and reports no failure; no error is swallowed  *)
(* without a failure report.                                               *)
C12_ExitBehaviour ==
  /\ mainPc # "end" => (~successLogged /\ failed = NoError)
  /\ (mainPc = "end" /\ pc = "done") => (successLogged /\ failed = NoError)
  /\ (mainPc = "end" /\ pc # "done") =>
       /\ ~successLogged
       /\ failed # NoError
       /\ failed = (IF pc = "failed" THEN error
                    ELSE IF document.kind = "missing"
                         THEN "Collaborator file not found: " \o FilePath
                         ELSE RunParse.message)

C12_Witness ==
  /\ mainPc = "end"
  /\ pc = "failed"
  /\ failed = "API Error"
  /\ ~successLogged
  /\ \E q \in LogIdx : Mutating(log[q]) /\ log[q].ok

----------------------------------------------------------------------------
\* The parser has returned, or has thrown.
Parsed == mainPc = "parsed"
ParseFailed == mainPc = "parseFailed"

\* A document of the team format: a sequence of group objects, one at least.
IsTeamDocument(doc) ==
  /\ doc.kind = "sequence"
  /\ doc.items # <<>>
  /\ \A i \in 1..Len(doc.items) : doc.items[i].kind = "team"

\* The members of the groups, in document order, each with the role of its
\* group as the document writes it.
MembersAsWritten(items) ==
  Flatten([i \in 1..Len(items) |->
             [m \in 1..Len(items[i].members) |->
                [username |-> items[i].members[m].username,
                 role |-> items[i].role]]])

\* The same, with the role in lower case.
MembersLowerCased(items) ==
  Flatten([i \in 1..Len(items) |->
             [m \in 1..Len(items[i].members) |->
                [username |-> items[i].members[m].username,
                 role |-> toLowerCase(items[i].role)]]])

(* C13: team format: for a document that is a sequence of group objects    *)
(* (team, role, members), parseCollaboratorsFile returns exactly one entry *)
(* per member, in document order (groups in order, members in order within *)
(* each group), each with the member's username and the role of the group  *)
(* it belongs to; the member metadata fields have no effect on the result. *)
(* As stated it fails: the role of the group is returned in lower case.    *)
C13_TeamRoleAsWritten ==
  ((Parsed \/ ParseFailed) /\ IsTeamDocument(document)) =>
    /\ Parsed
    /\ desiredCollaborators = MembersAsWritten(document.items)

(* C13 as amended: one entry per member, in document order, each with the  *)
(* member's username and the lower-cased role of the group it belongs to;  *)
(* the member metadata fields have no effect on the result.                *)
C13_TeamRoleLowerCased ==
  ((Parsed \/ ParseFailed) /\ IsTeamDocument(document)) =>
    /\ Parsed
    /\ desiredCollaborators = MembersLowerCased(document.items)

C13_Witness ==
  /\ Parsed
  /\ IsTeamDocument(document)
  /\ Len(document.items) = 2
  /\ document.items[1].role = "Admin"
  /\ document.items[1].members =
       <<[username |-> "b", name |-> JsUndefined], [username |-> "a", name |-> "Al"]>>
  /\ document.items[2].role = "pull"
  /\ desiredCollaborators =
       <<[username |-> "b", role |-> "admin"], [username |-> "a", role |-> "admin"],
         [username |-> "a", role |-> "pull"]>>

----------------------------------------------------------------------------
\* A document of the flat sequence shapes: a sequence, not of the team
\* format, of bare strings and of objects.
IsFlatDocument(doc) ==
  /\ doc.kind = "sequence"
  /\ \A i \in 1..Len(doc.items) : doc.items[i].kind \in {"string", "object"}

\* An object element that writes a role (a string), or writes none.
HasRole(item) == item.kind = "object" /\ IsString(item.role) /\ item.role # ""
HasNoRole(item) == item.kind = "object" /\ item.role \in {JsUndefined, JsNull}

----------------------------------------------------------------------------
\* A document of the mapping format: every value is a string or null.
IsMappingDocument(doc) ==
  /\ doc.kind = "mapping"
  /\ \A i \in 1..Len(doc.entries) :
       IsString(doc.entries[i].value) \/ doc.entries[i].value = JsNull

(* C15: mapping format: for a document that is a mapping from username to  *)
(* permission string, parseCollaboratorsFile returns one entry per key     *)
(* with that key as username and the value (in lower case) as role, and a  *)
(* key whose value is null or missing yields role push.                    *)
C15_MappingFormat ==
  ((Parsed \/ ParseFailed) /\ IsMappingDocument(document)) =>
    /\ Parsed
    /\ Len(desiredCollaborators) = Len(document.entries)
    /\ \A i \in 1..Len(document.entries) :
         desiredCollaborators[i] =
           [username |-> document.entries[i].key,
            role |-> IF document.entries[i].value = JsNull THEN "push"
                     ELSE toLowerCase(document.entries[i].value)]

----------------------------------------------------------------------------
\* The members of the groups, each with the permission level the role
\* mapping gives for the role of its group.
MembersMapped(items) ==
  Flatten([i \in 1..Len(items) |->
             [m \in 1..Len(items[i].members) |->
                [username |-> items[i].members[m].username,
                 role |-> mapRoleToPermission(items[i].role)]]])

(* C16: role mapping: the parser maps a group role string to a permission  *)
(* level, case-insensitively, as admin to admin, member to push, and pull, *)
(* push, maintain, triage each to itself.                                  *)
C16_RoleMapping ==
  (Parsed /\ IsTeamDocument(document)) =>
    desiredCollaborators = MembersMapped(document.items)

----------------------------------------------------------------------------
(* C17: every entry returned by the parser has a permission level that is  *)
(* one of pull, triage, push, maintain, admin in lower case, whatever role *)
(* value the document writes.                                              *)
C17_PermissionLevels ==
  Parsed =>
    \A i \in 1..Len(desiredCollaborators) :
      desiredCollaborators[i].role \in Permissions

----------------------------------------------------------------------------
\* The file was read and decoded.
Decoded(doc) == doc.kind \notin {"unreadable", "malformed"}

\* The document matches one of the four recognised shapes: group objects,
\* bare strings and objects carrying a username, or a mapping whose values
\* are strings or null.
RecognisedShape(doc) ==
  \/ IsTeamDocument(doc)
  \/ /\ IsFlatDocument(doc)
     /\ \A i \in 1..Len(doc.items) :
          doc.items[i].kind = "object" => doc.items[i].username # JsUndefined
  \/ IsMappingDocument(doc)

\* The parser has failed with the message of an unrecognised format.
FailedUnableToParse ==
  /\ ParseFailed
  /\ error = "Failed to parse collaborator file: Unable to parse collaborators file format"
  /\ desiredCollaborators = <<>>

----------------------------------------------------------------------------
\* What the parser throws before the catch block wraps it.
Causes(doc) ==
  CASE doc.kind \in {"unreadable", "malformed"} -> {doc.message}
    [] doc.kind \in {"scalar", "null", "mapping"} ->
         {"Unable to parse collaborators file format"}
    [] OTHER ->
         {"Invalid collaborator format: 42", "Invalid collaborator format: null",
          NotAFunction, NotIterable, MembersOfNull}

(* C19: every failure inside parseCollaboratorsFile (file read failure,    *)
(* invalid entry, unrecognised format) is surfaced as one error whose      *)
(* message is 'Failed to parse collaborator file: ' followed by the        *)
(* message of the underlying cause.                                        *)
C19_FailureWrapped ==
  /\ ParseFailed =>
       /\ error \in {"Failed to parse collaborator file: " \o c :
                       c \in Causes(document)}
       /\ desiredCollaborators = <<>>
  /\ (mainPc \in {"parse", "parsed"}) => error = NoError

C19_Witness ==
  /\ ParseFailed
  /\ document.kind = "unreadable"
  /\ error = "Failed to parse collaborator file: File not found"

----------------------------------------------------------------------------
\* The place of a call in the fixed order of the passes.
PassRank(e) ==
  CASE e.phase = "observe" -> 0
    [] e.phase = "addOrUpdate" -> 1
    [] e.phase = "removeCollaborators" -> 2
    [] OTHER -> 3

(* C20: fixed pass order: in every run, all calls of the add-or-update     *)
(* pass (addCollaborator and the deleteInvitation of a replaced            *)
(* invitation) are issued for desired entries in input order and before    *)
(* any removeCollaborator call, and every removeCollaborator call is       *)
(* issued before any deleteInvitation call of the remove-invitations pass. *)
C20_FixedPassOrder ==
  /\ \A q \in LogIdx :
       /\ log[q].op = "addCollaborator" => log[q].phase = "addOrUpdate"
       /\ log[q].op = "removeCollaborator" => log[q].phase = "removeCollaborators"
       /\ log[q].op = "deleteInvitation" =>
            log[q].phase \in {"addOrUpdate", "removeInvites"}
  /\ \A p, q \in LogIdx :
       p < q =>
         /\ PassRank(log[p]) <= PassRank(log[q])
         /\ (log[p].phase = "addOrUpdate" /\ log[q].phase = "addOrUpdate") =>
              log[p].idx <= log[q].idx

C20_Witness ==
  /\ pc = "done"
  /\ run = 1
  /\ Len(log) = 6
  /\ log[3].op = "deleteInvitation" /\ log[3].phase = "addOrUpdate"
  /\ log[4].op = "addCollaborator" /\ log[4].phase = "addOrUpdate"
  /\ log[5].op = "removeCollaborator"
  /\ log[6].op = "deleteInvitation" /\ log[6].phase = "removeInvites"

----------------------------------------------------------------------------
\* A listing call.
Listing(e) == e.op \in {"listCollaborators", "listInvitations"}

\* The snapshot is what the listings of getCurrentState gave when the run
\* started: every page of collaborators, and the one page of invitations.
SnapshotOfStart ==
  /\ currentCollaborators = startCollaborators
  /\ pendingInvites = Page(startInvitations, DefaultPerPage, 1)

(* C21: observe once, before mutating: both listings (collaborators, then  *)
(* invitations) complete before the first mutating call of a run, and no   *)
(* listing call is issued after the first mutating call, so every decision *)
(* in the run is taken on the snapshot of the Observe phase, which stays   *)
(* what the listings returned when the run started.                        *)
C21_ObserveOnceBeforeMutating ==
  /\ \A q \in LogIdx :
       /\ log[q].op = "listCollaborators" =>
            \A p \in 1..(q - 1) : log[p].op = "listCollaborators" /\ log[p].ok
       /\ log[q].op = "listInvitations" =>
            /\ q > 1
            /\ \A p \in 1..(q - 1) : log[p].op = "listCollaborators" /\ log[p].ok
       /\ Mutating(log[q]) =>
            /\ \E p \in 1..(q - 1) : log[p].op = "listInvitations" /\ log[p].ok
            /\ \A p \in LogIdx : p > q => ~Listing(log[p])
  /\ Observed => SnapshotOfStart

C21_Witness ==
  /\ pc = "done"
  /\ run = 1
  /\ Len(log) >= 5
  /\ collaborators # startCollaborators
  /\ invitations # startInvitations
  /\ currentCollaborators = startCollaborators
  /\ pendingInvites = startInvitations
  /\ \A q \in 3..Len(log) : Mutating(log[q]) /\ log[q].ok

----------------------------------------------------------------------------
\* The addCollaborator at q has failed right after the deleteInvitation of
\* the invitation it replaces has succeeded.
ReplaceFailedAt(q) ==
  /\ q \in LogIdx
  /\ q > 1
  /\ log[q].op = "addCollaborator"
  /\ ~log[q].ok
  /\ log[q - 1].op = "deleteInvitation"
  /\ log[q - 1].ok
  /\ log[q - 1].phase = "addOrUpdate"
  /\ log[q - 1].idx = log[q].idx

\* The remote holds no invitation and no collaborator access for the
\* principal.
NoAccess(username) ==
  /\ \A k \in 1..Len(collaborators) :
       ~SamePrincipal(collaborators[k].login, username)
  /\ \A k \in 1..Len(invitations) :
       invitations[k].invitee = NoInvitee
         \/ ~SamePrincipal(invitations[k].invitee, username)

(* C23: non-atomic invitation replace: if the deleteInvitation of a        *)
(* replaced invitation succeeds and the addCollaborator that follows it    *)
(* fails, the run fails with that error, the addCollaborator is not        *)
(* retried, no later call is issued, and the remote is left with neither   *)
(* an invitation nor collaborator access for that principal.               *)
C23_NonAtomicReplace ==
  \A q \in LogIdx :
    ReplaceFailedAt(q) =>
      /\ q = Len(log)
      /\ pc = "failed"
      /\ error = log[q].msg
      /\ NoAccess(log[q].user)

C23_Witness ==
  /\ ReplaceFailedAt(Len(log))
  /\ pc = "failed"
  /\ Len(log) = 4
  /\ Len(startInvitations) = 2
  /\ Len(invitations) = 1
  /\ \E k \in 1..Len(startInvitations) :
       /\ startInvitations[k].invitee # NoInvitee
       /\ SamePrincipal(startInvitations[k].invitee, log[4].user)
       /\ startInvitations[k].id = log[3].id

----------------------------------------------------------------------------
(* C24: fail fast on validation: when a desired entry has a missing or     *)
(* non-string username, syncCollaborators fails before issuing any remote  *)
(* call at all, that is before listCollaborators and listInvitations as    *)
(* well as before any mutating call.                                       *)
C24_FailsBeforeAnyCall ==
  InvalidIdx # {} => log = <<>>

----------------------------------------------------------------------------
(* C25: the passes touch disjoint remote targets: in one run no            *)
(* lower-cased identity is the target of both an addCollaborator call and  *)
(* a removeCollaborator call, and no invitation id is deleted both by the  *)
(* add-or-update pass and by the remove-invitations pass.                  *)
C25_DisjointTargets ==
  \A p, q \in LogIdx :
    /\ (log[p].op = "addCollaborator" /\ log[q].op = "removeCollaborator")
         => ~SamePrincipal(log[p].user, log[q].user)
    /\ (/\ log[p].op = "deleteInvitation" /\ log[p].phase = "addOrUpdate"
        /\ log[q].op = "deleteInvitation" /\ log[q].phase = "removeInvites")
         => log[p].id # log[q].id

C25_Witness ==
  /\ pc = "done"
  /\ run = 1
  /\ \E p, q \in LogIdx :
       /\ log[p].op = "addCollaborator"
       /\ log[q].op = "removeCollaborator"
  /\ \E p, q \in LogIdx :
       /\ log[p].op = "deleteInvitation" /\ log[p].phase = "addOrUpdate"
       /\ log[q].op = "deleteInvitation" /\ log[q].phase = "removeInvites"
  /\ Len(desiredCollaborators) = 2

----------------------------------------------------------------------------
(* C26: minimal operations: in one run, for every desired list (including  *)
(* lists that name the same lower-cased identity more than once), at most  *)
(* one addCollaborator call is issued per lower-cased identity, at most    *)
(* one removeCollaborator call per collaborator, and at most one           *)
(* deleteInvitation call per invitation id.                                *)
C26_MinimalOperations ==
  \A p, q \in LogIdx :
    p < q =>
      /\ (log[p].op = "addCollaborator" /\ log[q].op = "addCollaborator")
           => ~SamePrincipal(log[p].user, log[q].user)
      /\ (log[p].op = "removeCollaborator" /\ log[q].op = "removeCollaborator")
           => ~SamePrincipal(log[p].user, log[q].user)
      /\ (log[p].op = "deleteInvitation" /\ log[q].op = "deleteInvitation")
           => log[p].id # log[q].id

----------------------------------------------------------------------------
\* Entry j is the last entry of the list that names its principal.
LastFor(j) ==
  \A k \in DesiredIdx :
    SamePrincipal(desiredCollaborators[k].username,
                  desiredCollaborators[j].username) => k <= j

\* The remote holds the principal of d, as collaborator or as invitee, with
\* the role of d.
HoldsRoleOf(d) ==
  \/ \E k \in 1..Len(collaborators) :
       /\ SamePrincipal(collaborators[k].login, d.username)
       /\ collaborators[k].role_name = d.role
  \/ \E k \in 1..Len(invitations) :
       /\ invitations[k].invitee # NoInvitee
       /\ SamePrincipal(invitations[k].invitee, d.username)
       /\ invitations[k].permissions = d.role

(* C27: last-write-wins on duplicates: when the desired list contains      *)
(* several entries whose usernames are equal after lower-casing but whose  *)
(* roles differ, a successful run leaves that principal (as collaborator   *)
(* or as invitee) with the role of the last such entry in the list, for    *)
(* every initial remote state.                                             *)
C27_LastWriteWins ==
  (pc = "done" /\ run = 1) =>
    \A i, j \in DesiredIdx :
      (/\ i < j
       /\ LastFor(j)
       /\ SamePrincipal(desiredCollaborators[i].username,
                        desiredCollaborators[j].username)
       /\ desiredCollaborators[i].role # desiredCollaborators[j].role)
        => HoldsRoleOf(desiredCollaborators[j])

----------------------------------------------------------------------------
\* The mutating calls of the run, in the order they were issued.
EngineCalls ==
  LET calls == SelectSeq(log, Mutating)
  IN [q \in 1..Len(calls) |->
        Call(calls[q].op, calls[q].user, calls[q].perm, calls[q].id)]

\* The calls of the three passes for a desired list and a snapshot.
Plan(desired, cur, pend) ==
  LET usernames == getDesiredUsernames(desired)
  IN Flatten([i \in 1..Len(desired) |-> AddOrUpdateCalls(desired[i], cur, pend)])
       \o Flatten([k \in 1..Len(cur) |->
                     RemoveCollaboratorCalls(cur[k], usernames)])
       \o Flatten([k \in 1..Len(pend) |-> RemoveInviteCalls(pend[k], usernames)])

IsPrefix(s, t) == Len(s) <= Len(t) /\ s = SubSeq(t, 1, Len(s))

\* What a successful run promises: every desired principal holds a role an
\* entry requests for it, and no other principal is a collaborator or holds
\* an invitation.
Postcondition ==
  /\ \A i \in DesiredIdx :
       \E j \in DesiredIdx :
         /\ SamePrincipal(desiredCollaborators[i].username,
                          desiredCollaborators[j].username)
         /\ Granted(desiredCollaborators[j])
  /\ \A k \in 1..Len(collaborators) :
       toLowerCase(collaborators[k].login) \in DesiredPrincipals
  /\ \A k \in 1..Len(invitations) :
       invitations[k].invitee # NoInvitee
         => toLowerCase(invitations[k].invitee) \in DesiredPrincipals

(* C29: TOCTOU: when another administrator changes the remote between the  *)
(* engine's Observe phase and its mutating calls (adds a collaborator,     *)
(* changes a permission, an invitee accepts an invitation), a run can      *)
(* complete successfully and still leave a state that violates the         *)
(* postcondition; the run never observes again, and without such a change  *)
(* a successful run on a repository whose invitations fit in the one page  *)
(* it lists leaves the postcondition true.                                  *)
C29_OnlyExternalChangeBreaks ==
  /\ \A p, q \in LogIdx :
       (log[p].op \in ExternalOps /\ p < q) => ~Listing(log[q])
  /\ (/\ pc = "done"
      /\ Len(startInvitations) <= DefaultPerPage
      /\ ~Postcondition) => ExternalChanges # {}

C29_Witness ==
  /\ pc = "done"
  /\ ExternalChanges = {3}
  /\ Len(log) >= 4
  /\ \A q \in LogIdx : log[q].ok
  /\ ~Postcondition

----------------------------------------------------------------------------
(* C30: the plan depends on the snapshot only: as long as every call       *)
(* succeeds, the mutating calls a run has issued are a prefix of, and at   *)
(* the end equal to, the sequence computed from the desired list and the   *)
(* observed collaborator and invitation snapshots alone, whatever the      *)
(* remote holds after the Observe phase and whatever earlier entries did.  *)
C30_PlanFromSnapshotOnly ==
  (Observed /\ \A q \in LogIdx : log[q].ok) =>
    LET plan == Plan(desiredCollaborators, currentCollaborators, pendingInvites)
    IN /\ IsPrefix(EngineCalls, plan)
       /\ pc = "done" => EngineCalls = plan

C30_Witness ==
  /\ pc = "done"
  /\ ExternalChanges # {}
  /\ Len(EngineCalls) >= 3
  /\ \E i \in DesiredIdx : i > 1 /\ CausedBy(i) # {}
  /\ \E i \in DesiredIdx : CausedBy(i) = {}
  /\ collaborators # startCollaborators

----------------------------------------------------------------------------
(* C22: complete observation: the collaborator set and the                 *)
(* pending-invitation set the engine diffs against are each the remote's   *)
(* complete set, whatever the number of pages the remote splits a listing  *)
(* into; no collaborator or invitation on a later page is missing from the *)
(* snapshot.                                                               *)
C22_CompleteObservation ==
  Observed =>
    /\ currentCollaborators = startCollaborators
    /\ pendingInvites = startInvitations

----------------------------------------------------------------------------
\* The mutating calls syncCollaborators issues for a desired list on a
\* repository when every call succeeds: none when the list is rejected,
\* else the calls of the three passes on what getCurrentState returns.
ManagerCalls(desired, remoteCollaborators, remoteInvitations) ==
  IF getDesiredUsernamesThrows(desired) # NoError THEN <<>>
  ELSE Plan(desired, remoteCollaborators,
            Page(remoteInvitations, DefaultPerPage, 1))

(* C28: the two diff implementations are equivalent: for the same desired  *)
(* list and the same remote state, the legacy inline run in main.ts and    *)
(* CollaboratorManager.syncCollaborators issue the same sequence of        *)
(* mutating calls (same operations, same targets, same permissions, same   *)
(* order).                                                                 *)
C28_SameMutatingCalls ==
  LET calls == ManagerCalls(desiredCollaborators, startCollaborators,
                            startInvitations)
  IN /\ IsPrefix(EngineCalls, calls)
     /\ (pc \in {"done", "failed"} /\ \A q \in LogIdx : log[q].ok)
          => EngineCalls = calls

----------------------------------------------------------------------------
\* Desired entry i matches both a collaborator and an invitation of the
\* snapshot.
MatchesBoth(i) ==
  /\ ObservedCollaborator(desiredCollaborators[i].username)
  /\ ObservedInvites(desiredCollaborators[i].username) # {}

(* C31: collaborator match takes precedence over invitation match: when a  *)
(* desired identity matches both an observed collaborator and an observed  *)
(* pending invitation, only the collaborator's role is compared (the entry *)
(* causes an addCollaborator call exactly when that role differs from the  *)
(* desired one); the invitation is neither deleted nor replaced in any     *)
(* pass, whatever permission it offers: no deleteInvitation carries its    *)
(* id and the remote still holds it as it was.                             *)
C31_CollaboratorPrecedence ==
  Observed =>
    \A i \in DesiredIdx :
      MatchesBoth(i) =>
        /\ \A q \in CausedBy(i) : log[q].op = "addCollaborator"
        /\ Cardinality(CausedBy(i)) <= 1
        /\ AlreadyCorrect(i) => CausedBy(i) = {}
        /\ (pc = "done" /\ ~AlreadyCorrect(i)) => CausedBy(i) # {}
        /\ \A k \in ObservedInvites(desiredCollaborators[i].username) :
             /\ \A q \in LogIdx :
                  log[q].op = "deleteInvitation" => log[q].id # pendingInvites[k].id
             /\ \E m \in 1..Len(invitations) : invitations[m] = pendingInvites[k]

C31_Witness ==
  /\ pc = "done"
  /\ run = 1
  /\ \E i \in DesiredIdx :
       /\ MatchesBoth(i)
       /\ CausedBy(i) # {}
       /\ \E k \in ObservedInvites(desiredCollaborators[i].username) :
            pendingInvites[k].permissions # desiredCollaborators[i].role
  /\ \E q \in LogIdx : log[q].op = "deleteInvitation"
  /\ \E q \in LogIdx : log[q].op = "removeCollaborator"

----------------------------------------------------------------------------
(* C32: parser output satisfies the engine's precondition: whenever        *)
(* parseCollaboratorsFile returns a list instead of failing, every entry   *)
(* of that list has a non-empty string username, for every document        *)
(* including sequences that mix shapes (a group object after a flat entry, *)
(* an object entry without a username).                                    *)
C32_ParsedUsernamesValid ==
  Parsed =>
    \A i \in DesiredIdx :
      /\ IsString(desiredCollaborators[i].username)
      /\ desiredCollaborators[i].username # ""

----------------------------------------------------------------------------
(* C33: a run whose collaborator file is missing or fails to parse issues  *)
(* no remote call at all (no listing, no mutation), and reports the        *)
(* failure; file resolution and parsing complete successfully before the   *)
(* first call to the remote.                                               *)
C33_NoCallWithoutFile ==
  /\ FileUnusable =>
       /\ log = <<>>
       /\ pc = "idle"
       /\ remoteVars = <<startCollaborators, startInvitations,
                         Len(startInvitations) + 1>>
       /\ mainPc = "end" => failed # NoError
  /\ mainPc \in {"resolve", "load"} => log = <<>>
  /\ log # <<>> => (mainPc \in {"sync", "end"} /\ ~FileUnusable)

C33_Witness ==
  /\ mainPc = "end"
  /\ variant = "manager"
  /\ document.kind = "sequence"
  /\ ~RunParse.ok
  /\ failed = RunParse.message
  /\ log = <<>>
  /\ collaborators # <<>>
  /\ invitations # <<>>

----------------------------------------------------------------------------
\* The run has ended, in success or in failure.
Ended == pc \in {"done", "failed"}

\* The mutating calls of the run so far, and those of one pass for one
\* element of what the pass iterates over.
MutatingCalls == {q \in LogIdx : Mutating(log[q])}
CallsFor(ph, i) == {q \in MutatingCalls : log[q].phase = ph /\ log[q].idx = i}

CallBound ==
  /\ Cardinality(MutatingCalls)
       <= 2 * Len(desiredCollaborators) + Len(currentCollaborators)
            + Len(pendingInvites)
  /\ \A q \in MutatingCalls :
       \/ log[q].phase = "addOrUpdate" /\ log[q].idx \in DesiredIdx
       \/ /\ log[q].phase = "removeCollaborators"
          /\ log[q].idx \in 1..Len(currentCollaborators)
       \/ log[q].phase = "removeInvites" /\ log[q].idx \in 1..Len(pendingInvites)
  /\ \A i \in DesiredIdx : Cardinality(CallsFor("addOrUpdate", i)) <= 2
  /\ \A k \in 1..Len(currentCollaborators) :
       Cardinality(CallsFor("removeCollaborators", k)) <= 1
  /\ \A k \in 1..Len(pendingInvites) :
       Cardinality(CallsFor("removeInvites", k)) <= 1

(* C34: termination: provided every remote call returns (with a result or  *)
(* an error), every syncCollaborators run eventually ends in success or    *)
(* failure, after at most two mutating calls per desired entry plus one    *)
(* per observed collaborator plus one per observed invitation.             *)
C34_Termination ==
  /\ [](CallBound)
  /\ (~Ended) ~> Ended

C34_Witness ==
  /\ pc = "done"
  /\ run = 1
  /\ \E i \in DesiredIdx : Cardinality(CallsFor("addOrUpdate", i)) = 2
  /\ \E k \in 1..Len(currentCollaborators) :
       CallsFor("removeCollaborators", k) # {}
  /\ \E k \in 1..Len(pendingInvites) : CallsFor("removeInvites", k) # {}

====
